---------------------------- MODULE Spec2Model ----------------------------
(***************************************************************************)
(* Model of the contact-form mail sender (FastAPI application).            *)
(*                                                                         *)
(*   src/Emails/schemas.py       ContactFormRequest and its validators     *)
(*   src/Emails/config_email.py  EmailSettings.parse_recipients            *)
(*   src/Emails/service.py       EmailService (render, schedule, send)     *)
(*   src/Emails/router.py        POST /contact/submit, GET /contact/health *)
(*                                                                         *)
(* Text is a sequence of one-character strings, so that stripping,         *)
(* pattern substitution and interpolation are computed as the code         *)
(* computes them.                                                          *)
(***************************************************************************)
EXTENDS Integers, Sequences, FiniteSets, TLC

VARIABLES
    email_settings,   \* config_email.py: the EmailSettings singleton
    templates,        \* the template directory: template name -> "ok" | "missing" | "broken"
    requests,         \* request id -> the request's record (one POST /contact/submit each)
    health,           \* the last answer of GET /contact/health ("none" before the first)
    probe             \* one application of a validator or of the renderer to one input

vars == <<email_settings, templates, requests, health, probe>>

----------------------------------------------------------------------------
(* Bounds of the model.                                                    *)

\* Number of POST /contact/submit requests in one behaviour.
MaxRequests == 2
\* Telephone inputs are concatenations of at most this many PhoneBlocks.
MaxPhoneBlocks == 5
\* Message inputs are concatenations of at most this many MessageBlocks.
MaxMessageBlocks == 4

----------------------------------------------------------------------------
(* Text helpers.                                                           *)

LowerLetters ==
    << "a","b","c","d","e","f","g","h","i","j","k","l","m",
       "n","o","p","q","r","s","t","u","v","w","x","y","z" >>
UpperLetters ==
    << "A","B","C","D","E","F","G","H","I","J","K","L","M",
       "N","O","P","Q","R","S","T","U","V","W","X","Y","Z" >>
DigitChars == {"0","1","2","3","4","5","6","7","8","9"}
Range(s) == { s[i] : i \in 1..Len(s) }
\* \s of the patterns, and what str.strip() removes.
Whitespace == {" ", "\t", "\n", "\r"}
\* \w of the patterns.
WordChars == Range(LowerLetters) \cup Range(UpperLetters) \cup DigitChars \cup {"_"}

\* re.IGNORECASE: a character compared by its lower-case form.
Lower(c) ==
    IF c \in Range(UpperLetters)
    THEN LowerLetters[CHOOSE i \in 1..26 : UpperLetters[i] = c]
    ELSE c

RECURSIVE Concat(_)
\* The concatenation of a sequence of texts.
Concat(ss) == IF ss = <<>> THEN <<>> ELSE Head(ss) \o Concat(Tail(ss))

\* Whether text sub occurs in text s (Python's `sub in s`).
Contains(s, sub) ==
    \E i \in 1..(Len(s) - Len(sub) + 1) :
        \A k \in 1..Len(sub) : s[i + k - 1] = sub[k]

\* Whether sub occurs in s, letters compared without case.
ContainsNoCase(s, sub) ==
    \E i \in 1..(Len(s) - Len(sub) + 1) :
        \A k \in 1..Len(sub) : Lower(s[i + k - 1]) = Lower(sub[k])

\* str.strip(): leading and trailing whitespace removed.
Strip(s) ==
    LET keep == { i \in 1..Len(s) : s[i] \notin Whitespace } IN
    IF keep = {} THEN <<>>
    ELSE LET lo == CHOOSE i \in keep : \A j \in keep : i <= j
             hi == CHOOSE i \in keep : \A j \in keep : j <= i
         IN SubSeq(s, lo, hi)

\* All sequences over S of length at most n.
SeqsUpTo(S, n) == UNION { [1..k -> S] : k \in 0..n }

----------------------------------------------------------------------------
(* schemas.py: ContactFormRequest, the telephone field.                    *)

\* Field(min_length=8, max_length=20) of telephone.
TelephoneMinLength == 8
TelephoneMaxLength == 20
\* \d{8,15} of the pattern of validate_phone_format.
PhoneMinDigits == 8
PhoneMaxDigits == 15

\* re.sub(r'[\s\-\(\)]', '', v)
PhoneCleaned(v) ==
    SelectSeq(v, LAMBDA c : c \notin (Whitespace \cup {"-", "(", ")"}))

\* re.match(r'^\+?\d{8,15}$', cleaned).  ($ also matches before one final
\* line break, which cleaned cannot hold: \s has been removed.)
PhoneMatches(cleaned) ==
    LET digits == IF cleaned # <<>> /\ cleaned[1] = "+" THEN Tail(cleaned) ELSE cleaned
    IN /\ Len(digits) >= PhoneMinDigits
       /\ Len(digits) <= PhoneMaxDigits
       /\ \A i \in 1..Len(digits) : digits[i] \in DigitChars

\* A mutant of validate_phone_format: parentheses are not removed.
validate_phone_format_keeps_parens(v) ==
    LET cleaned == SelectSeq(v, LAMBDA c : c \notin (Whitespace \cup {"-"})) IN
    IF ~PhoneMatches(cleaned)
    THEN [ok |-> FALSE, error |-> "Format de telephone invalide"]
    ELSE [ok |-> TRUE, value |-> cleaned]

\* @validator('telephone') validate_phone_format: the cleaned number, or ValueError.
validate_phone_format(v) ==
    LET cleaned == PhoneCleaned(v) IN
    IF ~PhoneMatches(cleaned)
    THEN [ok |-> FALSE, error |-> "Format de telephone invalide"]
    ELSE [ok |-> TRUE, value |-> cleaned]

\* The telephone field as pydantic validates it: the Field's length
\* constraints on the raw input first, then the validator on the raw input;
\* the validator's result is stored without a second length check.
TelephoneField(v) ==
    IF Len(v) < TelephoneMinLength
    THEN [ok |-> FALSE, error |-> "string_too_short"]
    ELSE IF Len(v) > TelephoneMaxLength
    THEN [ok |-> FALSE, error |-> "string_too_long"]
    ELSE validate_phone_format(v)

----------------------------------------------------------------------------
(* schemas.py: ContactFormRequest, the message field.                      *)

\* Field(min_length=10, max_length=2000) of message.
MessageMinLength == 10
MessageMaxLength == 2000

\* Whether the literal lit (lower case) stands in s at position i, without case.
LitAt(lit, s, i) ==
    /\ i >= 1
    /\ i + Len(lit) - 1 <= Len(s)
    /\ \A k \in 1..Len(lit) : Lower(s[i + k - 1]) = lit[k]

\* The least element of a non-empty set of positions.
Least(S) == CHOOSE i \in S : \A j \in S : i <= j

\* <open[^>]*>.*?</close> with re.DOTALL at position i: the position after the
\* match, or 0.  [^>]* cannot pass a ">", so the tag ends at the first ">";
\* .*? is lazy, so the block ends at the first closing tag after it.
BlockEnd(open, close, s, i) ==
    IF ~LitAt(open, s, i) THEN 0
    ELSE LET gts == { j \in (i + Len(open))..Len(s) : s[j] = ">" } IN
         IF gts = {} THEN 0
         ELSE LET cls == { k \in (Least(gts) + 1)..Len(s) : LitAt(close, s, k) } IN
              IF cls = {} THEN 0 ELSE Least(cls) + Len(close)

\* on\w+\s*= at position i: the position after the match, or 0.  \w+ and \s*
\* are greedy and giving characters back never helps: the longest run of word
\* characters, then the longest run of whitespace, then "=".
EventEnd(s, i) ==
    IF ~LitAt(<<"o","n">>, s, i) THEN 0
    ELSE LET w0 == i + 2
             nw == { j \in w0..(Len(s) + 1) : j = Len(s) + 1 \/ s[j] \notin WordChars }
             w1 == Least(nw)
             ns == { j \in w1..(Len(s) + 1) : j = Len(s) + 1 \/ s[j] \notin Whitespace }
             s1 == Least(ns)
         IN IF w1 = w0 THEN 0
            ELSE IF s1 <= Len(s) /\ s[s1] = "=" THEN s1 + 1 ELSE 0

ScriptOpen == <<"<","s","c","r","i","p","t">>
ScriptClose == <<"<","/","s","c","r","i","p","t",">">>
IframeOpen == <<"<","i","f","r","a","m","e">>
IframeClose == <<"<","/","i","f","r","a","m","e",">">>
JavascriptUri == <<"j","a","v","a","s","c","r","i","p","t",":">>

\* dangerous_patterns of sanitize_message, in the order of the list.
DangerousPatterns == <<"script", "iframe", "javascript", "event">>

\* The position after the match of pattern p at position i of s, or 0.
MatchEnd(p, s, i) ==
    CASE p = "script" -> BlockEnd(ScriptOpen, ScriptClose, s, i)
      [] p = "iframe" -> BlockEnd(IframeOpen, IframeClose, s, i)
      [] p = "javascript" -> IF LitAt(JavascriptUri, s, i) THEN i + Len(JavascriptUri) ELSE 0
      [] p = "event" -> EventEnd(s, i)

RECURSIVE ReSubFrom(_, _, _)
\* re.sub(pattern, '', s) from position pos on: one scan from left to right,
\* each leftmost match removed, the scan resumed after it; text that a
\* removal brings together is not scanned again.
ReSubFrom(p, s, pos) ==
    LET starts == { i \in pos..Len(s) : MatchEnd(p, s, i) > 0 } IN
    IF starts = {} THEN SubSeq(s, pos, Len(s))
    ELSE LET i == Least(starts) IN
         SubSeq(s, pos, i - 1) \o ReSubFrom(p, s, MatchEnd(p, s, i))

\* re.sub(pattern, '', s, flags=re.IGNORECASE | re.DOTALL)
ReSub(p, s) == ReSubFrom(p, s, 1)

RECURSIVE SubAll(_, _)
\* for pattern in dangerous_patterns: cleaned = re.sub(pattern, '', cleaned)
SubAll(ps, s) == IF ps = <<>> THEN s ELSE SubAll(Tail(ps), ReSub(Head(ps), s))

\* @validator('message') sanitize_message: never raises.
sanitize_message(v) == Strip(SubAll(DangerousPatterns, v))

\* The message field as pydantic validates it: the Field's length constraints
\* on the raw input, then the validator; the sanitized text is stored without
\* a second length check.
MessageField(v) ==
    IF Len(v) < MessageMinLength
    THEN [ok |-> FALSE, error |-> "string_too_short"]
    ELSE IF Len(v) > MessageMaxLength
    THEN [ok |-> FALSE, error |-> "string_too_long"]
    ELSE [ok |-> TRUE, value |-> sanitize_message(v)]

----------------------------------------------------------------------------
(* schemas.py: ContactFormRequest, the other fields and the whole model.   *)

\* Field(min_length=2, max_length=100) of nom.
NomMinLength == 2
NomMaxLength == 100
\* Field(min_length=5, max_length=200) of sujet.
SujetMinLength == 5
SujetMaxLength == 200

\* A str field with length constraints and no validator.
StrField(v, lo, hi) ==
    IF Len(v) < lo THEN [ok |-> FALSE, error |-> "string_too_short"]
    ELSE IF Len(v) > hi THEN [ok |-> FALSE, error |-> "string_too_long"]
    ELSE [ok |-> TRUE, value |-> v]

\* Addresses are written as one character each: "a" and "b" are well-formed
\* addresses of the team, "v" a well-formed address of a visitor, "x" is text
\* that is no address.  Address syntax is the email validation library's.
AddressChars == {"a", "b", "v"}
IsAddress(e) == Len(e) = 1 /\ e[1] \in AddressChars

\* email: EmailStr
EmailField(v) ==
    IF IsAddress(v) THEN [ok |-> TRUE, value |-> v]
    ELSE [ok |-> FALSE, error |-> "value_error"]

FieldNames == {"nom", "email", "telephone", "sujet", "message"}

\* The validation of each field of a raw form.
FieldResults(form) ==
    [nom |-> StrField(form.nom, NomMinLength, NomMaxLength),
     email |-> EmailField(form.email),
     telephone |-> TelephoneField(form.telephone),
     sujet |-> StrField(form.sujet, SujetMinLength, SujetMaxLength),
     message |-> MessageField(form.message)]

\* A mutant of ContactFormRequest: the sujet field is not validated.
ContactFormRequest_sujet_unchecked(form) ==
    LET res == [FieldResults(form) EXCEPT !.sujet = [ok |-> TRUE, value |-> form.sujet]]
        bad == { f \in FieldNames : ~res[f].ok }
    IN IF bad # {}
       THEN [ok |-> FALSE, errors |-> bad]
       ELSE [ok |-> TRUE, value |-> [f \in FieldNames |-> res[f].value]]

\* ContactFormRequest(**body): the validated model, or the ValidationError
\* naming every field that failed (FastAPI answers it with 422).
ContactFormRequest(form) ==
    LET res == FieldResults(form)
        bad == { f \in FieldNames : ~res[f].ok }
    IN IF bad # {}
       THEN [ok |-> FALSE, errors |-> bad]
       ELSE [ok |-> TRUE, value |-> [f \in FieldNames |-> res[f].value]]

----------------------------------------------------------------------------
(* config_email.py: EmailSettings.                                         *)

RECURSIVE Split(_, _)
\* str.split(sep): the fields between the separators, empty ones included.
Split(v, sep) ==
    LET at == { i \in 1..Len(v) : v[i] = sep } IN
    IF at = {} THEN <<v>>
    ELSE <<SubSeq(v, 1, Least(at) - 1)>> \o Split(SubSeq(v, Least(at) + 1, Len(v)), sep)

\* @field_validator('MAIL_RECIPIENTS_CONTACT') parse_recipients
parse_recipients(v) ==
    IF v = <<>> THEN <<>>
    ELSE LET fields == Split(v, ",") IN [i \in 1..Len(fields) |-> Strip(fields[i])]

\* EmailSettings(): the singleton built from the environment at import.
EmailSettings(recipients) ==
    [MAIL_SERVER |-> "smtp.example.com",
     MAIL_PORT |-> 587,
     MAIL_FROM |-> "contact@example.com",
     MAIL_SSL_TLS |-> FALSE,
     MAIL_RECIPIENTS_CONTACT |-> parse_recipients(recipients),
     env_MAIL_RECIPIENTS_CONTACT |-> recipients]

----------------------------------------------------------------------------
(* service.py: template rendering.                                         *)

InternalTemplate == "notification_interne.html"
VisitorTemplate == "confirmation_visiteur.html"
TemplateNames == {InternalTemplate, VisitorTemplate}
ContextKeys == <<"nom", "email", "telephone", "sujet", "message", "date_reception">>

\* context.get(key, 'N/A')
ContextGet(context, key) ==
    IF key \in DOMAIN context THEN context[key] ELSE <<"N", "/", "A">>

\* autoescape=select_autoescape(['html', 'xml']): a value's markup characters
\* are replaced by entities (each written as one element).
Escape(v) ==
    [i \in 1..Len(v) |->
        CASE v[i] = "<" -> "&lt;"
          [] v[i] = ">" -> "&gt;"
          [] v[i] = "&" -> "&amp;"
          [] OTHER -> v[i]]

\* template.render(**context) of a template that loads: the template's own
\* text (one element, the files are not part of the sources) and the context's
\* values escaped; a variable the context lacks renders as nothing.
TemplateRender(template_name, context) ==
    <<template_name>> \o
    Concat([i \in 1..Len(ContextKeys) |->
              IF ContextKeys[i] \in DOMAIN context
              THEN Escape(context[ContextKeys[i]]) \o <<"|">>
              ELSE <<"|">>])

\* _fallback_html: the fixed document with the context's fields interpolated
\* as they are.  Each literal stretch of the f-string is one element.
_fallback_html(context) ==
    Concat(<< <<"<!DOCTYPE html><html><body><h2>Nouveau Message de Contact</h2><p><strong>Nom :</strong> ">>,
              ContextGet(context, "nom"),
              <<"</p><p><strong>Email :</strong> ">>,
              ContextGet(context, "email"),
              <<"</p><p><strong>Telephone :</strong> ">>,
              ContextGet(context, "telephone"),
              <<"</p><p><strong>Sujet :</strong> ">>,
              ContextGet(context, "sujet"),
              <<"</p><p><strong>Message :</strong></p><pre>">>,
              ContextGet(context, "message"),
              <<"</pre></body></html>">> >>)

\* Whether jinja_env.get_template(name) and template.render succeed: the
\* template is a file of the directory that loads and compiles.
Renders(tpl, template_name) ==
    template_name \in DOMAIN tpl /\ tpl[template_name] = "ok"

\* A mutant of _render_template: the fallback escapes the values as a template would.
_render_template_escaping(tpl, template_name, context) ==
    IF Renders(tpl, template_name)
    THEN [raised |-> FALSE, html |-> TemplateRender(template_name, context), fallback |-> FALSE]
    ELSE [raised |-> FALSE,
          html |-> _fallback_html([k \in DOMAIN context |-> Escape(context[k])]),
          fallback |-> TRUE]

\* _render_template: the rendered template, or on any exception the fallback.
_render_template(tpl, template_name, context) ==
    IF Renders(tpl, template_name)
    THEN [raised |-> FALSE, html |-> TemplateRender(template_name, context), fallback |-> FALSE]
    ELSE [raised |-> FALSE, html |-> _fallback_html(context), fallback |-> TRUE]

----------------------------------------------------------------------------
(* service.py: the two messages and their scheduling.                      *)

\* MessageSchema(subject, recipients, body, subtype=html): the message, or the
\* library's ValidationError when a recipient is no address.
MessageSchema(subject, recipients, body) ==
    IF \A i \in 1..Len(recipients) : IsAddress(recipients[i])
    THEN [raised |-> FALSE,
          value |-> [subject |-> subject, recipients |-> recipients, body |-> body]]
    ELSE [raised |-> TRUE, value |-> "ValidationError"]

\* The text of the answer of send_contact_form_submission.
SentText == "Votre message a ete envoye avec succes. Nous vous repondrons dans les plus brefs delais."
\* The text of the answer of the except branch of submit_contact_form.
ReceivedText == "Votre message a ete recu. Nous vous contacterons bientot."

\* background_tasks.add_task(self._send_email_with_logging, message, email_type)
Task(message, email_type) ==
    [message |-> message, email_type |-> email_type, state |-> "scheduled", attempts |-> 0]

\* What send_contact_form_submission leaves when it raises at some step.
Raised(steps, rendered, tasks) ==
    [raised |-> TRUE, result |-> "none", tasks |-> tasks,
     steps |-> steps, rendered |-> rendered]

\* A mutant of send_contact_form_submission: the visitor's confirmation is not scheduled.
send_contact_form_submission_one_task(settings, tpl, form_data) ==
    LET template_data ==
            [nom |-> form_data.nom, email |-> form_data.email,
             telephone |-> form_data.telephone, sujet |-> form_data.sujet,
             message |-> form_data.message, date_reception |-> <<"d">>]
        internal_body == _render_template(tpl, InternalTemplate, template_data)
        internal_message ==
            MessageSchema("Nouveau message", settings.MAIL_RECIPIENTS_CONTACT, internal_body.html)
    IN IF internal_body.raised \/ internal_message.raised
       THEN Raised(<<>>, <<>>, <<>>)
       ELSE [raised |-> FALSE,
             result |-> [success |-> TRUE, message |-> SentText,
                         timestamp |-> "datetime.utcnow().isoformat()"],
             tasks |-> <<Task(internal_message.value, "notification interne")>>,
             steps |-> <<"rendered", "scheduled">>,
             rendered |-> <<[template |-> InternalTemplate, fallback |-> internal_body.fallback]>>]

\* send_contact_form_submission: render and build the internal notification,
\* render and build the visitor's confirmation, add the two tasks in that
\* order, return the success dictionary.  The coroutine awaits nothing, so it
\* runs as one step; an exception leaves it at the statement that raised.
send_contact_form_submission(settings, tpl, form_data) ==
    LET template_data ==
            [nom |-> form_data.nom, email |-> form_data.email,
             telephone |-> form_data.telephone, sujet |-> form_data.sujet,
             message |-> form_data.message, date_reception |-> <<"d">>]
        internal_body == _render_template(tpl, InternalTemplate, template_data)
        internal_message ==
            MessageSchema("Nouveau message", settings.MAIL_RECIPIENTS_CONTACT, internal_body.html)
        visitor_body == _render_template(tpl, VisitorTemplate, template_data)
        visitor_message ==
            MessageSchema("Votre message a bien ete recu", <<form_data.email>>, visitor_body.html)
        r1 == <<[template |-> InternalTemplate, fallback |-> internal_body.fallback]>>
        r2 == r1 \o <<[template |-> VisitorTemplate, fallback |-> visitor_body.fallback]>>
    IN IF internal_body.raised THEN Raised(<<>>, <<>>, <<>>)
       ELSE IF internal_message.raised THEN Raised(<<>>, r1, <<>>)
       ELSE IF visitor_body.raised THEN Raised(<<>>, r1, <<>>)
       ELSE IF visitor_message.raised THEN Raised(<<"rendered">>, r2, <<>>)
       ELSE [raised |-> FALSE,
             result |-> [success |-> TRUE, message |-> SentText,
                         timestamp |-> "datetime.utcnow().isoformat()"],
             tasks |-> <<Task(internal_message.value, "notification interne"),
                         Task(visitor_message.value, "confirmation visiteur")>>,
             steps |-> <<"rendered", "scheduled">>,
             rendered |-> r2]

----------------------------------------------------------------------------
(* router.py: the handler of POST /contact/submit.                         *)

\* A mutant of submit_contact_form: the except branch answers a server error.
submit_contact_form_error_500(settings, tpl, form_data) ==
    LET sent == send_contact_form_submission(settings, tpl, form_data) IN
    IF sent.raised
    THEN [response |-> [status |-> 500, success |-> FALSE, message |-> "Internal Server Error",
                        timestamp |-> "none", detail |-> {}],
          raised |-> TRUE, tasks |-> sent.tasks, steps |-> sent.steps, rendered |-> sent.rendered]
    ELSE [response |-> [status |-> 200, success |-> sent.result.success,
                        message |-> sent.result.message, timestamp |-> sent.result.timestamp,
                        detail |-> {}],
          raised |-> FALSE, tasks |-> sent.tasks, steps |-> sent.steps, rendered |-> sent.rendered]

\* A mutant of submit_contact_form: the except branch reports the failure.
submit_contact_form_reports_failure(settings, tpl, form_data) ==
    LET sent == send_contact_form_submission(settings, tpl, form_data) IN
    IF sent.raised
    THEN [response |-> [status |-> 200, success |-> FALSE, message |-> ReceivedText,
                        timestamp |-> "datetime.now().isoformat()", detail |-> {}],
          raised |-> TRUE, tasks |-> sent.tasks, steps |-> sent.steps, rendered |-> sent.rendered]
    ELSE [response |-> [status |-> 200, success |-> sent.result.success,
                        message |-> sent.result.message, timestamp |-> sent.result.timestamp,
                        detail |-> {}],
          raised |-> FALSE, tasks |-> sent.tasks, steps |-> sent.steps, rendered |-> sent.rendered]

\* submit_contact_form: ContactFormResponse(**result) of the service's answer,
\* or, on any exception, the success response of the except branch.
submit_contact_form(settings, tpl, form_data) ==
    LET sent == send_contact_form_submission(settings, tpl, form_data) IN
    IF sent.raised
    THEN [response |-> [status |-> 200, success |-> TRUE, message |-> ReceivedText,
                        timestamp |-> "datetime.now().isoformat()", detail |-> {}],
          raised |-> TRUE, tasks |-> sent.tasks, steps |-> sent.steps, rendered |-> sent.rendered]
    ELSE [response |-> [status |-> 200, success |-> sent.result.success,
                        message |-> sent.result.message, timestamp |-> sent.result.timestamp,
                        detail |-> {}],
          raised |-> FALSE, tasks |-> sent.tasks, steps |-> sent.steps, rendered |-> sent.rendered]

\* check_email_service_health: the summary of the configuration.
check_email_service_health(settings) ==
    [status |-> "operational",
     smtp_server |-> <<settings.MAIL_SERVER, settings.MAIL_PORT>>,
     mail_from |-> settings.MAIL_FROM,
     tls_enabled |-> settings.MAIL_SSL_TLS,
     recipients_count |-> Len(settings.MAIL_RECIPIENTS_CONTACT)]

----------------------------------------------------------------------------
(* service.py: one background send.                                        *)

\* What fast_mail.send_message does: the message is sent, or the connection,
\* the authentication or the transmission fails with an exception.
SmtpOutcomes == {"sent", "connection_error", "authentication_error", "transmission_error"}

\* A mutant of _send_email_with_logging: the exception of a failed send is not caught.
_send_email_with_logging_uncaught(outcome) ==
    IF outcome = "sent" THEN "sent" ELSE "raised"

\* _send_email_with_logging after send_message ends with outcome: the state in
\* which the task ends.  An exception is logged and swallowed ("failed").
_send_email_with_logging(outcome) ==
    IF outcome = "sent" THEN "sent" ELSE "failed"

----------------------------------------------------------------------------
(* The inputs.                                                             *)

\* A valid submission: the telephone is written with separators and the
\* message holds markup that sanitize_message removes.
ValidForm ==
    [nom |-> <<"A","l">>,
     email |-> <<"v">>,
     telephone |-> <<"+","2","2","4"," ","6","2","-","1","2","-","3","4","-","5","6","7">>,
     sujet |-> <<"T","a","r","i","f","s">>,
     message |-> <<"<","b",">","B","o","n","j","o","u","r"," ">> \o JavascriptUri
                 \o <<" ","c","o","m","b","i","e","n","&"," ">>]

\* Submissions that violate a constraint: the telephone alone, the subject
\* alone, and the three other fields together.
InvalidForms ==
    { [ValidForm EXCEPT !.telephone = <<"a","b","c">>],
      [ValidForm EXCEPT !.sujet = <<"T","a","r","i">>],
      [ValidForm EXCEPT !.nom = <<"A">>,
                        !.email = <<"x">>,
                        !.message = <<"B","o","n","j","o","u","r"," ","!">>] }

Forms == {ValidForm} \cup InvalidForms

\* The values of MAIL_RECIPIENTS_CONTACT in the environment: no recipient, one,
\* two, a list with a trailing comma, blanks only, text that is no address.
RecipientConfigs ==
    { <<>>,
      <<"a">>,
      <<"a", ",", " ", "b">>,
      <<"a", ",">>,
      <<" ">>,
      <<"x">> }

\* The states of the template directory: both templates load, or one is
\* missing and the other does not compile.
TemplateStates ==
    { [t \in TemplateNames |-> "ok"],
      [t \in TemplateNames |-> IF t = InternalTemplate THEN "missing" ELSE "broken"] }

PhoneBlocks ==
    { <<"+">>, <<"5">>, <<"1","2","3","4","5","6","7">>, <<"(","-",")"," ">>, <<"a">> }
\* The concatenations of at most n texts of blocks.
Texts(blocks, n) == { Concat(bs) : bs \in SeqsUpTo(blocks, n) }

MessageBlocks ==
    { <<"<","s","c","r","i","p","t",">">>, ScriptClose, <<"<","S","c","r">>, <<"i","p","t",">">>,
      JavascriptUri, <<"j","a","v","a">>, <<"s","c","r","i","p","t",":">>,
      <<"o","n","c","l","i","c","k","=">>, <<"o">>, <<"n","c","l","i","c","k","=">>,
      <<"H","e","l","l","o"," ","w","o","r","l","d"," ">> }

----------------------------------------------------------------------------
(* The state and the actions.                                              *)

RequestIds == 1..MaxRequests

NoForm == [nom |-> <<>>, email |-> <<>>, telephone |-> <<>>, sujet |-> <<>>, message |-> <<>>]
NoResponse == [status |-> 0, success |-> FALSE, message |-> "", timestamp |-> "", detail |-> {}]
NoHealth == [status |-> "none", recipients_count |-> 0]
NoProbe == [op |-> "none"]

IdleRequest ==
    [pc |-> "idle", form |-> NoForm, form_data |-> NoForm, response |-> NoResponse,
     raised |-> FALSE, background_tasks |-> <<>>, steps |-> <<>>, rendered |-> <<>>]

\* The application after import: the settings read from the environment, the
\* template directory as it is, no request yet.
Init ==
    /\ email_settings \in { EmailSettings(v) : v \in RecipientConfigs }
    /\ templates \in TemplateStates
    /\ requests = [r \in RequestIds |-> IdleRequest]
    /\ health = NoHealth
    /\ probe = NoProbe

\* A client posts a form to /contact/submit.
Receive(r, form) ==
    /\ requests[r].pc = "idle"
    /\ \A q \in RequestIds : q < r => requests[q].pc # "idle"
    /\ requests' = [requests EXCEPT ![r] =
           [@ EXCEPT !.pc = "received", !.form = form, !.steps = <<"received">>]]
    /\ UNCHANGED <<email_settings, templates, health, probe>>

\* FastAPI builds the handler's form_data: ContactFormRequest of the body, or
\* the 422 answer and no call of the handler.
Validate(r) ==
    /\ requests[r].pc = "received"
    /\ LET v == ContactFormRequest(requests[r].form) IN
       requests' = [requests EXCEPT ![r] =
           IF v.ok
           THEN [@ EXCEPT !.pc = "validated", !.form_data = v.value,
                          !.steps = @ \o <<"validated">>]
           ELSE [@ EXCEPT !.pc = "responded",
                          !.response = [status |-> 422, success |-> FALSE, message |-> "",
                                        timestamp |-> "", detail |-> v.errors],
                          !.steps = @ \o <<"responded">>]]
    /\ UNCHANGED <<email_settings, templates, health, probe>>

\* The body of submit_contact_form, one step of the event loop.
Handle(r) ==
    /\ requests[r].pc = "validated"
    /\ LET h == submit_contact_form(email_settings, templates, requests[r].form_data) IN
       requests' = [requests EXCEPT ![r] =
           [@ EXCEPT !.pc = "handled", !.response = h.response, !.raised = h.raised,
                     !.background_tasks = h.tasks, !.rendered = h.rendered,
                     !.steps = @ \o h.steps]]
    /\ UNCHANGED <<email_settings, templates, health, probe>>

\* The response goes out; the background tasks of the request run after it.
Respond(r) ==
    /\ requests[r].pc = "handled"
    /\ requests' = [requests EXCEPT ![r] =
           [@ EXCEPT !.pc = "responded", !.steps = @ \o <<"responded">>]]
    /\ UNCHANGED <<email_settings, templates, health, probe>>

\* NextTask with the sends started where they are scheduled, as
\* asyncio.create_task would start them, instead of after the response.
NextTask_started_at_scheduling(req) ==
    LET tasks == req.background_tasks
        open == { i \in 1..Len(tasks) : tasks[i].state \notin {"sent", "failed"} }
    IN IF open = {} THEN 0
       ELSE IF tasks[Least(open)].state = "scheduled" THEN Least(open) ELSE 0

\* The task BackgroundTasks runs next for request r, or 0: the tasks run in the
\* order of add_task, each awaited before the next; a task that raises ends
\* the loop.
NextTask(req) ==
    LET tasks == req.background_tasks
        open == { i \in 1..Len(tasks) : tasks[i].state \notin {"sent", "failed"} }
    IN IF req.pc # "responded" \/ open = {} THEN 0
       ELSE IF tasks[Least(open)].state = "scheduled" THEN Least(open) ELSE 0

\* SendStart with one worker for the sends of all the requests: no send starts
\* while a send of any request is in progress.
SendStart_one_worker(r) ==
    /\ NextTask(requests[r]) # 0
    /\ \A q \in RequestIds : \A i \in 1..Len(requests[q].background_tasks) :
           requests[q].background_tasks[i].state \notin {"sending", "hung"}
    /\ requests' = [requests EXCEPT ![r].background_tasks[NextTask(requests[r])] =
           [@ EXCEPT !.state = "sending", !.attempts = @ + 1]]
    /\ UNCHANGED <<email_settings, templates, health, probe>>

\* A task starts: _send_email_with_logging awaits fast_mail.send_message.
SendStart(r) ==
    /\ NextTask(requests[r]) # 0
    /\ requests' = [requests EXCEPT ![r].background_tasks[NextTask(requests[r])] =
           [@ EXCEPT !.state = "sending", !.attempts = @ + 1]]
    /\ UNCHANGED <<email_settings, templates, health, probe>>

\* send_message ends, with the message sent or with an exception.
SendEnd(r, i, outcome) ==
    /\ i \in 1..Len(requests[r].background_tasks)
    /\ requests[r].background_tasks[i].state = "sending"
    /\ requests' = [requests EXCEPT ![r].background_tasks[i].state =
           _send_email_with_logging(outcome)]
    /\ UNCHANGED <<email_settings, templates, health, probe>>

\* GET /contact/health
Health ==
    /\ health' = check_email_service_health(email_settings)
    /\ UNCHANGED <<email_settings, templates, requests, probe>>

Next ==
    \/ \E r \in RequestIds, form \in Forms : Receive(r, form)
    \/ \E r \in RequestIds : Validate(r)
    \/ \E r \in RequestIds : Handle(r)
    \/ \E r \in RequestIds : Respond(r)
    \/ \E r \in RequestIds : SendStart(r)
    \/ \E r \in RequestIds, i \in 1..2, outcome \in SmtpOutcomes : SendEnd(r, i, outcome)
    \/ Health

Spec == Init /\ [][Next]_vars

\* ---------------------------------------------------------------------------
\* Sends that hang
\* ---------------------------------------------------------------------------

\* The SMTP connection of a send hangs: the await of send_message never
\* returns and never raises (no timeout is set), so the task stays there.
SendHang(r, i) ==
    /\ i \in 1..Len(requests[r].background_tasks)
    /\ requests[r].background_tasks[i].state = "sending"
    /\ requests' = [requests EXCEPT ![r].background_tasks[i].state = "hung"]
    /\ UNCHANGED <<email_settings, templates, health, probe>>

NextHang ==
    \/ Next
    \/ \E r \in RequestIds, i \in 1..2 : SendHang(r, i)

SpecHang == Init /\ [][NextHang]_vars

----------------------------------------------------------------------------
(* The validators and the renderer applied to one input each.              *)

Quiet ==
    /\ email_settings = EmailSettings(<<"a">>)
    /\ templates = [t \in TemplateNames |-> "ok"]
    /\ requests = [r \in RequestIds |-> IdleRequest]
    /\ health = NoHealth

InitTelephone ==
    /\ Quiet
    /\ probe \in { [op |-> "telephone", input |-> v, done |-> FALSE,
                    output |-> [ok |-> FALSE, error |-> ""]] : v \in Texts(PhoneBlocks, MaxPhoneBlocks) }

\* The telephone field of one body is validated.
ValidateTelephone ==
    /\ probe.op = "telephone" /\ ~probe.done
    /\ probe' = [probe EXCEPT !.done = TRUE, !.output = TelephoneField(probe.input)]
    /\ UNCHANGED <<email_settings, templates, requests, health>>

SpecTelephone == InitTelephone /\ [][ValidateTelephone]_vars

InitMessage ==
    /\ Quiet
    /\ probe \in { [op |-> "message", input |-> v, done |-> FALSE,
                    output |-> [ok |-> FALSE, error |-> ""]] : v \in Texts(MessageBlocks, MaxMessageBlocks) }

\* The message field of one body is validated.
ValidateMessage ==
    /\ probe.op = "message" /\ ~probe.done
    /\ probe' = [probe EXCEPT !.done = TRUE, !.output = MessageField(probe.input)]
    /\ UNCHANGED <<email_settings, templates, requests, health>>

SpecMessage == InitMessage /\ [][ValidateMessage]_vars

\* The contexts given to the renderer: the values of a plain and of a markup
\* submission, with every subset of the keys present.
RenderValues ==
    { [nom |-> <<"A","l">>, email |-> <<"v">>, telephone |-> <<"6","2","1">>,
       sujet |-> <<"T","a","r","i","f","s">>, message |-> <<"B","o","n","j","o","u","r">>,
       date_reception |-> <<"d">>],
      [nom |-> <<"<","b",">","A","&","l">>, email |-> <<"v">>, telephone |-> <<"6","2","1">>,
       sujet |-> <<"<","i",">">>, message |-> <<"a","<","b"," ","&","&"," ","c",">","d">>,
       date_reception |-> <<"d">>] }
RenderContexts ==
    { [k \in D |-> full[k]] : D \in SUBSET Range(ContextKeys), full \in RenderValues }

InitRender ==
    /\ Quiet
    /\ probe \in { [op |-> "render", tpl |-> t, template_name |-> n, context |-> c,
                    done |-> FALSE, output |-> [raised |-> FALSE, html |-> <<>>, fallback |-> FALSE]] :
                   t \in [TemplateNames -> {"ok", "missing", "broken"}],
                   n \in TemplateNames \cup {"absent.html"},
                   c \in RenderContexts }

\* One template is rendered with one context.
RenderTemplate ==
    /\ probe.op = "render" /\ ~probe.done
    /\ probe' = [probe EXCEPT !.done = TRUE,
                              !.output = _render_template(probe.tpl, probe.template_name, probe.context)]
    /\ UNCHANGED <<email_settings, templates, requests, health>>

SpecRender == InitRender /\ [][RenderTemplate]_vars

----------------------------------------------------------------------------
(* The properties.                                                         *)

\* The requests that have been answered by the handler or by validation.
Answered(r) == requests[r].pc \in {"handled", "responded"}

RECURSIVE Without(_, _)
\* The text v with the characters of the set drop left out.
Without(v, drop) ==
    IF v = <<>> THEN <<>>
    ELSE IF Head(v) \in drop THEN Without(Tail(v), drop)
    ELSE <<Head(v)>> \o Without(Tail(v), drop)

\* The telephone input with whitespace, hyphens and parentheses removed.
Stripped(v) == Without(v, Whitespace \cup {"-", "(", ")"})

\* An optional leading + followed by 8 to 15 digits.
IsPlusDigits(s) ==
    \E n \in 8..15 :
        \/ Len(s) = n /\ \A i \in 1..n : s[i] \in DigitChars
        \/ Len(s) = n + 1 /\ s[1] = "+" /\ \A i \in 2..(n + 1) : s[i] \in DigitChars

\* The fields of a raw form that violate their constraint.
Violations(form) ==
    { f \in FieldNames :
        \/ f = "nom" /\ ~(Len(form.nom) >= 2 /\ Len(form.nom) <= 100)
        \/ f = "email" /\ ~IsAddress(form.email)
        \/ f = "telephone" /\ ~(/\ Len(form.telephone) >= 8 /\ Len(form.telephone) <= 20
                                /\ IsPlusDigits(Stripped(form.telephone)))
        \/ f = "sujet" /\ ~(Len(form.sujet) >= 5 /\ Len(form.sujet) <= 200)
        \/ f = "message" /\ ~(Len(form.message) >= 10 /\ Len(form.message) <= 2000) }

\* C1: every submission that passes validation is answered 200 with
\* success = true, in every state from the handler's return on, whatever the
\* two sends have done since (sent, failed, not started).
C1_ValidSubmissionAnswered200 ==
    \A r \in RequestIds :
        (Answered(r) /\ Violations(requests[r].form) = {}) =>
            /\ requests[r].response.status = 200
            /\ requests[r].response.success = TRUE

\* A valid submission answered 200 both of whose sends have failed.
C1_Witness ==
    \E r \in RequestIds :
        /\ requests[r].pc = "responded"
        /\ requests[r].response.status = 200 /\ requests[r].response.success
        /\ Len(requests[r].background_tasks) = 2
        /\ \A i \in 1..2 : requests[r].background_tasks[i].state = "failed"

\* The two sends of the claim: the internal notification to the configured
\* recipients, then the visitor's confirmation to the submitted address.
TwoSendsScheduled(r) ==
    LET tasks == requests[r].background_tasks IN
    /\ Len(tasks) = 2
    /\ tasks[1].email_type = "notification interne"
    /\ tasks[1].message.recipients = email_settings.MAIL_RECIPIENTS_CONTACT
    /\ tasks[2].email_type = "confirmation visiteur"
    /\ tasks[2].message.recipients = <<requests[r].form.email>>

\* C2 as stated: every submission answered with success = true has exactly the
\* two sends scheduled.
C2_Original ==
    \A r \in RequestIds :
        (Answered(r) /\ requests[r].response.success) => TwoSendsScheduled(r)

\* C2 as amended: a submission answered by the normal path (the text of
\* send_contact_form_submission) has exactly the two sends scheduled; one
\* answered with success = true by the except branch has none.
C2_TwoSendsOnNormalPath ==
    \A r \in RequestIds :
        (Answered(r) /\ requests[r].response.success) =>
            IF requests[r].response.message = SentText
            THEN TwoSendsScheduled(r)
            ELSE requests[r].raised /\ requests[r].background_tasks = <<>>

\* A submission answered by the normal path with two internal recipients.
C2_Witness ==
    \E r \in RequestIds :
        /\ Answered(r)
        /\ requests[r].response.message = SentText
        /\ TwoSendsScheduled(r)
        /\ Len(requests[r].background_tasks[1].message.recipients) = 2

\* C3 as stated: a request whose handling raised is answered with the success
\* flag and the text of the normal path.
C3_Original ==
    \A r \in RequestIds :
        (Answered(r) /\ requests[r].raised) =>
            /\ requests[r].response.success = TRUE
            /\ requests[r].response.message = SentText

\* C3 as amended: a request whose handling raised is answered 200 with
\* success = true and the text of the except branch, which is not the text of
\* the normal path.
C3_ExceptionAnsweredSuccess ==
    \A r \in RequestIds :
        (Answered(r) /\ requests[r].raised) =>
            /\ requests[r].response.status = 200
            /\ requests[r].response.success = TRUE
            /\ requests[r].response.message = ReceivedText
            /\ requests[r].response.message # SentText

\* A request whose handling raised and whose answer has gone out.
C3_Witness ==
    \E r \in RequestIds : requests[r].pc = "responded" /\ requests[r].raised

\* C4 as stated: the telephone is accepted, and stored stripped, whenever the
\* stripped input is an optional + and 8 to 15 digits, and rejected whenever
\* the stripped input is anything else.
C4_Original ==
    (probe.op = "telephone" /\ probe.done) =>
        IF IsPlusDigits(Stripped(probe.input))
        THEN probe.output.ok /\ probe.output.value = Stripped(probe.input)
        ELSE ~probe.output.ok

\* C4 as amended: the telephone is accepted, and stored stripped, exactly when
\* the raw input has 8 to 20 characters and the stripped input is an optional
\* + and 8 to 15 digits; every other input is rejected.
C4_TelephoneAccepted ==
    (probe.op = "telephone" /\ probe.done) =>
        IF /\ Len(probe.input) >= 8 /\ Len(probe.input) <= 20
           /\ IsPlusDigits(Stripped(probe.input))
        THEN probe.output.ok /\ probe.output.value = Stripped(probe.input)
        ELSE ~probe.output.ok

\* A telephone written with parentheses that is accepted and stored without them.
C4_Witness ==
    /\ probe.op = "telephone" /\ probe.done
    /\ probe.output.ok
    /\ "(" \in Range(probe.input)
    /\ probe.output.value # probe.input

\* Whether text s holds a <script> tag followed by a </script> tag.
HasScriptBlock(s) ==
    \E i \in 1..Len(s), j \in 1..Len(s) :
        /\ LitAt(ScriptOpen \o <<">">>, s, i)
        /\ j >= i + Len(ScriptOpen) + 1
        /\ LitAt(ScriptClose, s, j)

\* C5: the sanitized message of an accepted submission holds no script block,
\* no "javascript:" and no "onclick=", letters compared without case.
C5_SanitizedIsClean ==
    (probe.op = "message" /\ probe.done /\ probe.output.ok) =>
        /\ ~HasScriptBlock(probe.output.value)
        /\ ~ContainsNoCase(probe.output.value, JavascriptUri)
        /\ ~ContainsNoCase(probe.output.value, <<"o","n","c","l","i","c","k","=">>)

\* C8: the sanitized message of an accepted submission has 10 to 2000 characters.
C8_SanitizedLength ==
    (probe.op = "message" /\ probe.done /\ probe.output.ok) =>
        /\ Len(probe.output.value) >= 10
        /\ Len(probe.output.value) <= 2000

\* What the fallback shows for a key: the context's value, or N/A.
Shown(context, key) ==
    IF key \in DOMAIN context THEN context[key] ELSE <<"N","/","A">>

\* C6: when the template does not load or does not render, _render_template
\* does not raise and returns a non-empty document that holds the context's
\* nom, email and message as they are, N/A standing for a missing one.
C6_FallbackRendered ==
    (/\ probe.op = "render" /\ probe.done
     /\ \/ probe.template_name \notin TemplateNames
        \/ probe.tpl[probe.template_name] \in {"missing", "broken"}) =>
        /\ ~probe.output.raised
        /\ probe.output.html # <<>>
        /\ \A key \in {"nom", "email", "message"} :
               Contains(probe.output.html, Shown(probe.context, key))

\* A template that does not compile, rendered with a context whose name holds
\* markup and whose message is missing.
C6_Witness ==
    /\ probe.op = "render" /\ probe.done
    /\ probe.template_name \in TemplateNames
    /\ probe.tpl[probe.template_name] = "broken"
    /\ "nom" \in DOMAIN probe.context /\ "<" \in Range(probe.context.nom)
    /\ "message" \notin DOMAIN probe.context
    /\ probe.output.fallback
    /\ Contains(probe.output.html, <<"N","/","A">>)

\* C7: a submission with a field that violates its constraint is answered 422
\* naming the field, and the handler never runs for it: it is never validated,
\* nothing is rendered, no send is scheduled, no success response is made.
C7_InvalidRejected ==
    \A r \in RequestIds :
        (requests[r].pc # "idle" /\ Violations(requests[r].form) # {}) =>
            /\ requests[r].pc \in {"received", "responded"}
            /\ requests[r].pc = "responded" =>
                   /\ requests[r].response.status = 422
                   /\ requests[r].response.detail = Violations(requests[r].form)
            /\ ~requests[r].response.success
            /\ requests[r].rendered = <<>>
            /\ requests[r].background_tasks = <<>>
            /\ requests[r].steps \in {<<"received">>, <<"received", "responded">>}

\* A submission answered 422 for its subject alone.
C7_Witness ==
    \E r \in RequestIds :
        /\ requests[r].pc = "responded"
        /\ requests[r].response.status = 422
        /\ requests[r].response.detail = {"sujet"}

\* The number of addresses written in a comma-separated list: the fields that
\* hold more than blanks, counted by their first such character.
AddressesIn(v) ==
    Cardinality({ i \in 1..Len(v) :
        /\ v[i] \notin Whitespace \cup {","}
        /\ \A j \in 1..(i - 1) :
               (\A k \in j..(i - 1) : v[k] # ",") => v[j] \in Whitespace })

\* C9: the count that /contact/health reports is the number of addresses of
\* the configured list.
C9_HealthCountsAddresses ==
    health.status = "operational" =>
        health.recipients_count = AddressesIn(email_settings.env_MAIL_RECIPIENTS_CONTACT)

\* C10: every send is attempted at most once and ends without raising (sent, or
\* failed with the exception swallowed); a send that has ended was attempted
\* once; and after the internal notification has failed the visitor's
\* confirmation is the task that runs next.
C10_SendsOnceNoRaise ==
    \A r \in RequestIds :
        LET tasks == requests[r].background_tasks IN
        /\ \A i \in 1..Len(tasks) :
               /\ tasks[i].attempts <= 1
               /\ tasks[i].state \in {"scheduled", "sending", "sent", "failed"}
               /\ tasks[i].state \in {"sending", "sent", "failed"} => tasks[i].attempts = 1
        /\ (Len(tasks) = 2 /\ tasks[1].state = "failed" /\ tasks[2].state = "scheduled") =>
               /\ NextTask(requests[r]) = 2
               /\ ENABLED SendStart(r)

\* The internal notification has failed and the visitor's confirmation has
\* been attempted and sent.
C10_Witness ==
    \E r \in RequestIds :
        /\ Len(requests[r].background_tasks) = 2
        /\ requests[r].background_tasks[1].state = "failed"
        /\ requests[r].background_tasks[2].state = "sent"
        /\ requests[r].background_tasks[2].attempts = 1

\* ---------------------------------------------------------------------------
\* The steps of a request
\* ---------------------------------------------------------------------------

FullSteps == <<"received", "validated", "rendered", "scheduled", "responded">>

IsPrefix(s, t) == Len(s) <= Len(t) /\ SubSeq(t, 1, Len(s)) = s

\* The position of a step in the order of FullSteps.
StepRank(step) == CHOOSE k \in 1..Len(FullSteps) : FullSteps[k] = step

\* The steps are in the order of FullSteps and none is taken twice.
InOrderOnce(s) == \A k \in 1..(Len(s) - 1) : StepRank(s[k]) < StepRank(s[k + 1])

\* A send of request r has been attempted.
SendAttempted(r) ==
    \E i \in 1..Len(requests[r].background_tasks) :
        requests[r].background_tasks[i].attempts > 0

\* No send of a request is attempted before the handler has scheduled both
\* sends and the response of the request has been returned.
NoSendBeforeResponse ==
    \A r \in RequestIds :
        SendAttempted(r) =>
            /\ requests[r].pc = "responded"
            /\ Len(requests[r].background_tasks) = 2
            /\ requests[r].steps = FullSteps

\* C11 as stated: every request goes through received, validated, rendered,
\* scheduled, responded in that order, skipping and repeating none, and no
\* send is attempted before both sends are scheduled and the response returned.
C11_Original ==
    /\ \A r \in RequestIds :
           /\ IsPrefix(requests[r].steps, FullSteps)
           /\ requests[r].pc = "responded" => requests[r].steps = FullSteps
    /\ NoSendBeforeResponse

\* C11: the steps of a request are taken in the order received, validated,
\* rendered, scheduled, responded, none twice; a request whose handling does
\* not raise skips none; a request rejected by validation goes from received
\* to responded with 422; a request whose handling raises skips scheduled
\* (and rendered when the exception comes before the second rendering) and
\* has no send; and no send of a request is attempted before both sends are
\* scheduled and the response of the request has been returned.
C11_StepsInOrder ==
    /\ \A r \in RequestIds :
           LET req == requests[r] IN
           /\ InOrderOnce(req.steps)
           /\ req.pc # "idle" => req.steps[1] = "received"
           /\ req.pc = "idle" => req.steps = <<>>
           /\ (req.pc \in {"handled", "responded"} /\ ~req.raised
                   /\ req.response.status = 200)
                 => IsPrefix(req.steps, FullSteps) /\ Len(req.steps) >= 4
           /\ (req.pc = "responded" /\ req.response.status = 422)
                 => req.steps = <<"received", "responded">>
           /\ (req.pc = "responded" /\ req.raised)
                 => /\ req.steps \in { <<"received", "validated", "responded">>,
                                       <<"received", "validated", "rendered", "responded">> }
                    /\ req.background_tasks = <<>>
           /\ req.pc = "responded" => req.steps[Len(req.steps)] = "responded"
           /\ (req.pc = "responded" /\ ~req.raised /\ req.response.status = 200)
                 => req.steps = FullSteps
    /\ NoSendBeforeResponse

\* One request has taken the five steps and a send of it has been attempted,
\* another was rejected by validation.
C11_Witness ==
    \E r, q \in RequestIds :
        /\ requests[r].steps = FullSteps
        /\ SendAttempted(r)
        /\ requests[q].steps = <<"received", "responded">>

\* ---------------------------------------------------------------------------
\* A send that hangs
\* ---------------------------------------------------------------------------

TaskState(r, i) ==
    IF i \in 1..Len(requests[r].background_tasks)
    THEN requests[r].background_tasks[i].state ELSE "absent"

\* Send i of request r waits to be started.
SendWaits(r, i) == TaskState(r, i) = "scheduled"

\* Send i of request r has completed, with the message sent or the error logged.
SendCompleted(r, i) == TaskState(r, i) \in {"sent", "failed"}

\* A send of request r scheduled before send i hangs.
HungBefore(r, i) == \E j \in 1..(i - 1) : TaskState(r, j) = "hung"

\* The server has nothing left to do: no request waits for its validation or
\* its handler (the guards of Validate and Handle), no response waits to go
\* out, no send can start and none is in progress. Every step changes a
\* request towards such a state and none is undone, so the event loop, which
\* runs every coroutine that is ready, brings every run to one.
ServerQuiet ==
    \A r \in RequestIds :
        /\ requests[r].pc \notin {"received", "validated"}
        /\ ~ENABLED Respond(r)
        /\ ~ENABLED SendStart(r)
        /\ \A i \in 1..2 : ~ENABLED SendHang(r, i)

\* The work of a request goes on whatever the sends of the other requests do.
RequestsGoOn ==
    \A r \in RequestIds :
        /\ requests[r].pc = "handled" => ENABLED Respond(r)
        /\ NextTask(requests[r]) # 0 => ENABLED SendStart(r)
        /\ \A i \in 1..2 : TaskState(r, i) = "sending" => ENABLED SendHang(r, i)

\* C12 as stated: a send that hangs blocks only its own task: when the server
\* has nothing left to do, every request received has its response and every
\* send of every request has completed, except the sends that hang.
C12_Original ==
    ServerQuiet =>
        \A r \in RequestIds :
            /\ requests[r].pc \in {"idle", "responded"}
            /\ \A i \in 1..Len(requests[r].background_tasks) :
                   SendCompleted(r, i) \/ TaskState(r, i) = "hung"

\* C12: a send that hangs blocks its own task and the send scheduled after it
\* for the same submission, which is then never attempted, and nothing else:
\* the response of its request has been returned before the send started, a
\* send scheduled before it has completed, and the handling and the sends of
\* every other request go on and, when the server has nothing left to do,
\* have completed, unless a send of that request hangs itself.
C12_HangBlocksOwnRequestOnly ==
    /\ \A r \in RequestIds, i \in 1..2 :
           TaskState(r, i) = "hung" =>
               /\ requests[r].pc = "responded"
               /\ requests[r].response.status = 200
               /\ \A j \in 1..(i - 1) : SendCompleted(r, j)
               /\ \A j \in (i + 1)..Len(requests[r].background_tasks) :
                      /\ SendWaits(r, j)
                      /\ requests[r].background_tasks[j].attempts = 0
                      /\ ~ENABLED SendStart(r)
    /\ RequestsGoOn
    /\ ServerQuiet =>
           \A r \in RequestIds :
               /\ requests[r].pc \in {"idle", "responded"}
               /\ \A i \in 1..Len(requests[r].background_tasks) :
                      SendCompleted(r, i) \/ TaskState(r, i) = "hung" \/ HungBefore(r, i)

\* The internal notification of the first request hangs and its confirmation
\* waits, both sends of the later request have completed, and the server has
\* nothing left to do.
C12_Witness ==
    /\ TaskState(1, 1) = "hung"
    /\ SendWaits(1, 2)
    /\ requests[1].pc = "responded"
    /\ SendCompleted(2, 1)
    /\ SendCompleted(2, 2)
    /\ ServerQuiet

=============================================================================
